---- MODULE Spec2Model ----
(***************************************************************************)
(* Model of .github/scripts/youtube_to_discord.py: the new-video selection *)
(* (should_post_videos) and the run orchestrator (main) with its persisted *)
(* last-seen map.                                                          *)
(*                                                                         *)
(* A Video is modelled by its video_id alone: url is a function of the id  *)
(* and title/published never influence selection, marker or exit status.   *)
(* Video ids are positive integers.  A marker (a value of the last-seen    *)
(* map) is a video id, or NoMarker (key missing: state.get gives None), or *)
(* EmptyMarker (the empty string, which Python's "not x" treats like None),*)
(* or UnknownId (an id that no fetched batch contains).                    *)
(***************************************************************************)
EXTENDS Integers, Sequences, FiniteSets, TLC

\* ---------------------------------------------------------------- bounds
MaxVid == 3
MaxRuns == 2
MaxLen == 4

\* ------------------------------------------------------- program values
NoMarker == -2
EmptyMarker == -1
UnknownId == 0

CHANNELS == <<"hashtag_united", "hashtag_united_extra">>
ChannelKeys == {CHANNELS[i] : i \in 1..Len(CHANNELS)}

default_channel_id(c) ==
    IF c = "hashtag_united" THEN "UCeJ73ymlLhLctITwdi9iCVw" ELSE "UCno_OxtA1RcOfWjWjUPpfQg"

\* os.environ.get(env_name, "").strip(): unset, or an override
EnvChannelIds == {"", "UCoverride"}

\* --channel: "all" or one configured key
ChannelArgs == {"all"} \cup ChannelKeys

\* Python truthiness of a marker: None and "" are falsy
Truthy(m) == m # NoMarker /\ m # EmptyMarker

Reverse(s) == [i \in 1..Len(s) |-> s[Len(s) + 1 - i]]

\* mutant: the scan stops after the newest video
ScanNew_OnlyNewest(vs, last_seen_video_id, i) ==
    IF i > Len(vs) THEN <<>>
    ELSE IF vs[i] = last_seen_video_id THEN <<>>
    ELSE <<vs[i]>>

\* the for/break loop of should_post_videos, from position i
RECURSIVE ScanNew(_, _, _)
ScanNew(vs, last_seen_video_id, i) ==
    IF i > Len(vs) THEN <<>>
    ELSE IF vs[i] = last_seen_video_id THEN <<>>
    ELSE <<vs[i]>> \o ScanNew(vs, last_seen_video_id, i + 1)

\* mutant: the result is left newest-first
should_post_videos_NoReverse(vs, last_seen_video_id, force) ==
    IF vs = <<>> THEN <<>>
    ELSE IF force THEN <<vs[1]>>
    ELSE IF ~Truthy(last_seen_video_id) THEN <<>>
    ELSE IF vs[1] = last_seen_video_id THEN <<>>
    ELSE ScanNew(vs, last_seen_video_id, 1)

\* mutant: the bootstrap test comes before the force test
should_post_videos_BootstrapFirst(vs, last_seen_video_id, force) ==
    IF vs = <<>> THEN <<>>
    ELSE IF ~Truthy(last_seen_video_id) THEN <<>>
    ELSE IF force THEN <<vs[1]>>
    ELSE IF vs[1] = last_seen_video_id THEN <<>>
    ELSE Reverse(ScanNew(vs, last_seen_video_id, 1))

\* mutant: no bootstrap test
should_post_videos_NoBootstrap(vs, last_seen_video_id, force) ==
    IF vs = <<>> THEN <<>>
    ELSE IF force THEN <<vs[1]>>
    ELSE IF vs[1] = last_seen_video_id THEN <<>>
    ELSE Reverse(ScanNew(vs, last_seen_video_id, 1))

should_post_videos(vs, last_seen_video_id, force) ==
    IF vs = <<>> THEN <<>>
    ELSE IF force THEN <<vs[1]>>
    ELSE IF ~Truthy(last_seen_video_id) THEN <<>>
    ELSE IF vs[1] = last_seen_video_id THEN <<>>
    ELSE Reverse(ScanNew(vs, last_seen_video_id, 1))

\* channel id resolution of main: env override, else repository default,
\* else handle lookup (resolved = "" when the lookup gives None)
ResolveChannelId(c, env, resolved) ==
    IF env # "" THEN env
    ELSE IF default_channel_id(c) # "" THEN default_channel_id(c)
    ELSE resolved

selected_keys_of(arg) == IF arg = "all" THEN CHANNELS ELSE <<arg>>

\* mutant: any recorded error gives 1
ExitStatus_ErrorsOnly(errors, posted) ==
    IF errors # <<>> THEN 1 ELSE 0

\* exit status of main after the channel loop
ExitStatus(errors, posted) ==
    IF errors # <<>> /\ posted = 0 THEN 1 ELSE 0

\* ----------------------------------------------------------------- state
VARIABLES
    file,            \* the persisted last-seen map (state file), key -> marker
    source,          \* per channel, the newest-first list the video source held
                     \* when it was last fetched
    pc,              \* position of main: "idle", "loop", "post", "done"
    runs,            \* number of runs started so far
    force_latest,    \* args.force_latest of the current run
    selected_keys,   \* selected_keys of the current run
    idx,             \* position of the channel loop in selected_keys
    state,           \* the in-memory map of the current run
    state_changed,
    posted_count,
    channel_errors,  \* one entry (the channel key) per recorded error
    videos,          \* batch fetched for the channel being processed
    last_seen,       \* state.get(channel_key) read for that channel
    videos_to_post,  \* the part of the selection not yet posted
    exitCode,        \* return value of main, NoExit while running
    \* history of the current run
    loaded,          \* the map as load_state returned it
    postedRun,       \* per channel, the videos posted successfully, in order
    fetched,         \* per channel, the batch fetched (NoBatch: none)
    outcome,         \* per channel: "none", "empty", "ok", "fetch_error", "post_error"
    processed,       \* channels whose loop iteration has begun, in order
    writes,          \* number of save_state calls
    \* history across runs
    prevOk,          \* per channel, the batch of the previous run if the channel
                     \* completed without error in it, else NoBatch
    forcedEver,      \* some run so far had force_latest
    \* history across runs, recorded as long as no run had force_latest
    postCount,       \* per channel and video, successful posts so far
    failCount,       \* per channel, failed posts so far
    due,             \* per channel, the videos that first appeared in a batch
                     \* fetched when the channel's marker was already set
    \* inputs and result of one application of should_post_videos
    selVideos, selMarker, selForce, selResult, selDone

vars == <<file, source, pc, runs, force_latest, selected_keys, idx, state,
          state_changed, posted_count, channel_errors, videos, last_seen,
          videos_to_post, exitCode, loaded, postedRun, fetched, outcome,
          processed, writes, prevOk, postCount, failCount, due, forcedEver,
          selVideos, selMarker, selForce, selResult, selDone>>

selVars == <<selVideos, selMarker, selForce, selResult, selDone>>
sourceVars == <<source, due>>
crossRunVars == <<prevOk, postCount, failCount, forcedEver>>

NoExit == -1
NoBatch == <<-9>>
VideoIds == 1..MaxVid

\* newest-first batch of the videos 1..n
Desc(n) == [i \in 1..n |-> n + 1 - i]

Elems(s) == {s[i] : i \in 1..Len(s)}

\* ------------------------------------------------------------------ Init
SelIdle ==
    /\ selVideos = <<>>
    /\ selMarker = NoMarker
    /\ selForce = FALSE
    /\ selResult = <<>>
    /\ selDone = FALSE

RunIdle ==
    /\ pc = "idle"
    /\ runs = 0
    /\ force_latest = FALSE
    /\ selected_keys = <<>>
    /\ idx = 1
    /\ state = [c \in ChannelKeys |-> NoMarker]
    /\ state_changed = FALSE
    /\ posted_count = 0
    /\ channel_errors = <<>>
    /\ videos = <<>>
    /\ last_seen = NoMarker
    /\ videos_to_post = <<>>
    /\ exitCode = NoExit
    /\ loaded = [c \in ChannelKeys |-> NoMarker]
    /\ postedRun = [c \in ChannelKeys |-> <<>>]
    /\ fetched = [c \in ChannelKeys |-> NoBatch]
    /\ outcome = [c \in ChannelKeys |-> "none"]
    /\ processed = <<>>
    /\ writes = 0
    /\ prevOk = [c \in ChannelKeys |-> NoBatch]
    /\ postCount = [c \in ChannelKeys |-> [v \in VideoIds |-> 0]]
    /\ failCount = [c \in ChannelKeys |-> 0]
    /\ due = [c \in ChannelKeys |-> {}]
    /\ forcedEver = FALSE

\* The state file is missing or holds, per channel, no entry, an empty string,
\* the id of a video the source still lists, or an id it no longer lists.
Init ==
    /\ source \in [ChannelKeys -> {Desc(n) : n \in 0..1}]
    /\ file \in [ChannelKeys -> {NoMarker, EmptyMarker, UnknownId} \cup {1}]
    /\ \A c \in ChannelKeys : file[c] = 1 => source[c] # <<>>
    /\ RunIdle
    /\ SelIdle

\* --------------------------------------------------------------- actions
\* what the previous run leaves for the next one to compare with
OkBatches == [c \in ChannelKeys |->
                 IF outcome[c] \in {"ok", "empty"} THEN fetched[c] ELSE NoBatch]

ResetRunHistory ==
    /\ postedRun' = [c \in ChannelKeys |-> <<>>]
    /\ fetched' = [c \in ChannelKeys |-> NoBatch]
    /\ outcome' = [c \in ChannelKeys |-> "none"]
    /\ processed' = <<>>
    /\ writes' = 0
    /\ prevOk' = OkBatches

\* main, lines 231-245: a missing webhook URL or API key ends the run with 2
ConfigError ==
    /\ pc \in {"idle", "done"}
    /\ runs < MaxRuns
    /\ \E webhook_url \in {"", "https://hook"}, key1 \in {"", "k1"}, key2 \in {"", "k2"} :
          LET youtube_api_key == IF key1 # "" THEN key1 ELSE key2
          IN  webhook_url = "" \/ youtube_api_key = ""
    /\ runs' = runs + 1
    /\ pc' = "done"
    /\ exitCode' = 2
    /\ force_latest' = FALSE
    /\ selected_keys' = <<>>
    /\ idx' = 1
    /\ state' = [c \in ChannelKeys |-> NoMarker]
    /\ loaded' = [c \in ChannelKeys |-> NoMarker]
    /\ state_changed' = FALSE
    /\ posted_count' = 0
    /\ channel_errors' = <<>>
    /\ videos' = <<>>
    /\ last_seen' = NoMarker
    /\ videos_to_post' = <<>>
    /\ ResetRunHistory
    /\ UNCHANGED <<file, postCount, failCount, forcedEver>>
    /\ UNCHANGED sourceVars
    /\ UNCHANGED selVars

\* main, lines 231-253: configuration present, state loaded, loop set up
StartRun ==
    /\ pc \in {"idle", "done"}
    /\ runs < MaxRuns
    /\ \E webhook_url \in {"", "https://hook"}, key1 \in {"", "k1"}, key2 \in {"", "k2"} :
          LET youtube_api_key == IF key1 # "" THEN key1 ELSE key2
          IN  webhook_url # "" /\ youtube_api_key # ""
    /\ \E arg \in ChannelArgs, f \in BOOLEAN :
          /\ selected_keys' = selected_keys_of(arg)
          /\ force_latest' = f
          /\ forcedEver' = (forcedEver \/ f)
          /\ IF f THEN /\ postCount' = [c \in ChannelKeys |-> [v \in VideoIds |-> 0]]
                       /\ failCount' = [c \in ChannelKeys |-> 0]
                       /\ due' = [c \in ChannelKeys |-> {}]
                  ELSE UNCHANGED <<postCount, failCount, due>>
    /\ runs' = runs + 1
    /\ pc' = "loop"
    /\ exitCode' = NoExit
    /\ idx' = 1
    /\ state' = file
    /\ loaded' = file
    /\ state_changed' = FALSE
    /\ posted_count' = 0
    /\ channel_errors' = <<>>
    /\ videos' = <<>>
    /\ last_seen' = NoMarker
    /\ videos_to_post' = <<>>
    /\ ResetRunHistory
    /\ UNCHANGED <<file, source>>
    /\ UNCHANGED selVars

InLoop == pc = "loop" /\ idx <= Len(selected_keys)
channel_key == selected_keys[idx]

\* mutant: the first channel error ends the channel loop
ChannelError_Abort ==
    /\ InLoop
    /\ channel_errors' = Append(channel_errors, channel_key)
    /\ idx' = Len(selected_keys) + 1
    /\ outcome' = [outcome EXCEPT ![channel_key] = "fetch_error"]
    /\ processed' = Append(processed, channel_key)
    /\ UNCHANGED <<file, pc, runs, force_latest, selected_keys, state, state_changed,
                   posted_count, videos, last_seen, videos_to_post, exitCode, loaded,
                   postedRun, fetched, writes>>
    /\ UNCHANGED sourceVars
    /\ UNCHANGED crossRunVars
    /\ UNCHANGED selVars

\* lines 256-278 and 304-306 for the fetch: no channel id, or the fetch raises
ChannelError ==
    /\ InLoop
    /\ \E env \in EnvChannelIds, resolved \in {"", "UCresolved"}, raises \in BOOLEAN :
          ResolveChannelId(channel_key, env, resolved) = "" \/ raises
    /\ channel_errors' = Append(channel_errors, channel_key)
    /\ idx' = idx + 1
    /\ outcome' = [outcome EXCEPT ![channel_key] = "fetch_error"]
    /\ processed' = Append(processed, channel_key)
    /\ UNCHANGED <<file, pc, runs, force_latest, selected_keys, state, state_changed,
                   posted_count, videos, last_seen, videos_to_post, exitCode, loaded,
                   postedRun, fetched, writes>>
    /\ UNCHANGED sourceVars
    /\ UNCHANGED crossRunVars
    /\ UNCHANGED selVars

\* The list of channel c after k new videos were published: the source only
\* ever changes by new videos being put in front.
Grow(vs, k) == [i \in 1..k |-> Len(vs) + k + 1 - i] \o vs
NewCounts(c) == 0..(MaxVid - Len(source[c]))

\* lines 281-284: the fetch returns no video
FetchEmpty ==
    /\ InLoop
    /\ \E env \in EnvChannelIds, resolved \in {"", "UCresolved"} :
          ResolveChannelId(channel_key, env, resolved) # ""
    /\ source[channel_key] = <<>>
    /\ idx' = idx + 1
    /\ fetched' = [fetched EXCEPT ![channel_key] = <<>>]
    /\ outcome' = [outcome EXCEPT ![channel_key] = "empty"]
    /\ processed' = Append(processed, channel_key)
    /\ UNCHANGED <<file, pc, runs, force_latest, selected_keys, state, state_changed,
                   posted_count, channel_errors, videos, last_seen, videos_to_post,
                   exitCode, loaded, postedRun, writes>>
    /\ UNCHANGED sourceVars
    /\ UNCHANGED crossRunVars
    /\ UNCHANGED selVars

\* lines 281-292: a non-empty batch, the selection, the bootstrap write
FetchVideos ==
    /\ InLoop
    /\ \E env \in EnvChannelIds, resolved \in {"", "UCresolved"} :
          ResolveChannelId(channel_key, env, resolved) # ""
    /\ \E k \in NewCounts(channel_key) :
          /\ videos' = Grow(source[channel_key], k)
          /\ due' = [due EXCEPT ![channel_key] =
                        IF Truthy(state[channel_key]) /\ ~forcedEver
                        THEN @ \cup {videos'[i] : i \in 1..k} ELSE @]
    /\ videos' # <<>>
    /\ source' = [source EXCEPT ![channel_key] = videos']
    /\ last_seen' = state[channel_key]
    /\ videos_to_post' = should_post_videos(videos', last_seen', force_latest)
    /\ IF ~Truthy(last_seen')
       THEN /\ state' = [state EXCEPT ![channel_key] = videos'[1]]
            /\ state_changed' = TRUE
       ELSE UNCHANGED <<state, state_changed>>
    /\ pc' = "post"
    /\ fetched' = [fetched EXCEPT ![channel_key] = videos']
    /\ processed' = Append(processed, channel_key)
    /\ UNCHANGED <<file, runs, force_latest, selected_keys, idx, posted_count,
                   channel_errors, exitCode, loaded, postedRun, outcome, writes>>
    /\ UNCHANGED crossRunVars
    /\ UNCHANGED selVars

\* lines 294-297: one post_to_discord call returns normally
PostOk ==
    /\ pc = "post"
    /\ videos_to_post # <<>>
    /\ posted_count' = posted_count + 1
    /\ videos_to_post' = Tail(videos_to_post)
    /\ postedRun' = [postedRun EXCEPT ![channel_key] = Append(@, Head(videos_to_post))]
    /\ postCount' = IF forcedEver THEN postCount ELSE [postCount EXCEPT ![channel_key][Head(videos_to_post)] = @ + 1]
    /\ UNCHANGED <<file, pc, runs, force_latest, selected_keys, idx, state,
                   state_changed, channel_errors, videos, last_seen, exitCode, loaded,
                   fetched, outcome, processed, writes, prevOk, failCount, forcedEver>>
    /\ UNCHANGED sourceVars
    /\ UNCHANGED selVars

\* mutant: the marker follows videos[0] although a post failed
PostFail_AdvancesMarker ==
    /\ pc = "post"
    /\ videos_to_post # <<>>
    /\ channel_errors' = Append(channel_errors, channel_key)
    /\ state' = [state EXCEPT ![channel_key] = videos[1]]
    /\ state_changed' = TRUE
    /\ idx' = idx + 1
    /\ videos' = <<>> /\ last_seen' = NoMarker /\ videos_to_post' = <<>>
    /\ pc' = "loop"
    /\ outcome' = [outcome EXCEPT ![channel_key] = "post_error"]
    /\ failCount' = IF forcedEver THEN failCount ELSE [failCount EXCEPT ![channel_key] = @ + 1]
    /\ UNCHANGED <<file, runs, force_latest, selected_keys, posted_count, exitCode,
                   loaded, postedRun, fetched, processed, writes, prevOk, postCount,
                   forcedEver>>
    /\ UNCHANGED sourceVars
    /\ UNCHANGED selVars

\* lines 295 and 304-306: post_to_discord raises; the channel is abandoned
PostFail ==
    /\ pc = "post"
    /\ videos_to_post # <<>>
    /\ channel_errors' = Append(channel_errors, channel_key)
    /\ idx' = idx + 1
    /\ videos' = <<>> /\ last_seen' = NoMarker /\ videos_to_post' = <<>>
    /\ pc' = "loop"
    /\ outcome' = [outcome EXCEPT ![channel_key] = "post_error"]
    /\ failCount' = IF forcedEver THEN failCount ELSE [failCount EXCEPT ![channel_key] = @ + 1]
    /\ UNCHANGED <<file, runs, force_latest, selected_keys, state, state_changed,
                   posted_count, exitCode, loaded,
                   postedRun, fetched, processed, writes, prevOk, postCount, forcedEver>>
    /\ UNCHANGED sourceVars
    /\ UNCHANGED selVars

\* mutant: the marker is left alone after the posts
FinishChannel_NoAdvance ==
    /\ pc = "post"
    /\ videos_to_post = <<>>
    /\ idx' = idx + 1
    /\ videos' = <<>> /\ last_seen' = NoMarker /\ videos_to_post' = <<>>
    /\ pc' = "loop"
    /\ outcome' = [outcome EXCEPT ![channel_key] = "ok"]
    /\ UNCHANGED <<file, runs, force_latest, selected_keys, state, state_changed,
                   posted_count, channel_errors, exitCode, loaded, postedRun, fetched,
                   processed, writes>>
    /\ UNCHANGED sourceVars
    /\ UNCHANGED crossRunVars
    /\ UNCHANGED selVars

\* lines 299-302: every selected video posted; the marker follows videos[0]
FinishChannel ==
    /\ pc = "post"
    /\ videos_to_post = <<>>
    /\ IF state[channel_key] # videos[1]
       THEN /\ state' = [state EXCEPT ![channel_key] = videos[1]]
            /\ state_changed' = TRUE
       ELSE UNCHANGED <<state, state_changed>>
    /\ idx' = idx + 1
    /\ videos' = <<>> /\ last_seen' = NoMarker /\ videos_to_post' = <<>>
    /\ pc' = "loop"
    /\ outcome' = [outcome EXCEPT ![channel_key] = "ok"]
    /\ UNCHANGED <<file, runs, force_latest, selected_keys, posted_count,
                   channel_errors, exitCode, loaded,
                   postedRun, fetched, processed, writes>>
    /\ UNCHANGED sourceVars
    /\ UNCHANGED crossRunVars
    /\ UNCHANGED selVars

\* mutant: the state file is saved whether or not a marker changed
EndRun_AlwaysSave ==
    /\ pc = "loop"
    /\ idx > Len(selected_keys)
    /\ file' = state /\ writes' = writes + 1
    /\ exitCode' = ExitStatus(channel_errors, posted_count)
    /\ pc' = "done"
    /\ UNCHANGED <<runs, force_latest, selected_keys, idx, state, state_changed,
                   posted_count, channel_errors, videos, last_seen, videos_to_post,
                   loaded, postedRun, fetched, outcome, processed>>
    /\ UNCHANGED sourceVars
    /\ UNCHANGED crossRunVars
    /\ UNCHANGED selVars

\* lines 308-320: save if changed, then the exit status
EndRun ==
    /\ pc = "loop"
    /\ idx > Len(selected_keys)
    /\ IF state_changed
       THEN file' = state /\ writes' = writes + 1
       ELSE UNCHANGED <<file, writes>>
    /\ exitCode' = ExitStatus(channel_errors, posted_count)
    /\ pc' = "done"
    /\ UNCHANGED <<runs, force_latest, selected_keys, idx, state, state_changed,
                   posted_count, channel_errors, videos, last_seen, videos_to_post,
                   loaded, postedRun, fetched, outcome, processed>>
    /\ UNCHANGED sourceVars
    /\ UNCHANGED crossRunVars
    /\ UNCHANGED selVars

RunStep == ChannelError \/ FetchEmpty \/ FetchVideos \/ PostOk \/ PostFail
              \/ FinishChannel \/ EndRun

Next ==
    \/ ConfigError
    \/ StartRun
    \/ RunStep

Spec == Init /\ [][Next]_vars

\* ------------------------------------------------------ one run of main
\* One invocation of main from any content of the state file and any list of
\* the source: per channel the file holds no entry, an empty string, an id
\* the source no longer lists, or the id of one of the listed videos.
RunInit ==
    /\ source \in [ChannelKeys -> {Desc(n) : n \in 0..MaxVid}]
    /\ file \in [ChannelKeys -> {NoMarker, EmptyMarker, UnknownId} \cup VideoIds]
    /\ \A c \in ChannelKeys : file[c] \in VideoIds => file[c] <= Len(source[c])
    /\ RunIdle
    /\ SelIdle

FirstConfigError == runs = 0 /\ ConfigError
FirstStartRun == runs = 0 /\ StartRun

RunNext == FirstConfigError \/ FirstStartRun \/ RunStep

\* main is a sequential program whose calls return or raise (every network
\* call has a timeout): a step that can be taken is eventually taken
FairRunSpec == RunInit /\ [][RunNext]_vars /\ WF_vars(RunStep)

\* ------------------------------------------ should_post_videos on its own
\* newest-first batches of pairwise distinct ids, up to MaxLen videos
Batches ==
    {vs \in UNION {[1..n -> 1..MaxLen] : n \in 0..MaxLen} :
        \A i, j \in 1..Len(vs) : i # j => vs[i] # vs[j]}

Markers == {NoMarker, EmptyMarker, UnknownId} \cup (1..MaxLen)

SelectInit ==
    /\ source = [c \in ChannelKeys |-> <<>>]
    /\ file = [c \in ChannelKeys |-> NoMarker]
    /\ RunIdle
    /\ selVideos \in Batches
    /\ selMarker \in Markers
    /\ selForce \in BOOLEAN
    /\ selResult = <<>>
    /\ selDone = FALSE

Select ==
    /\ ~selDone
    /\ selResult' = should_post_videos(selVideos, selMarker, selForce)
    /\ selDone' = TRUE
    /\ UNCHANGED <<selVideos, selMarker, selForce>>
    /\ UNCHANGED <<file, source, pc, runs, force_latest, selected_keys, idx, state,
                   state_changed, posted_count, channel_errors, videos, last_seen,
                   videos_to_post, exitCode, loaded, postedRun, fetched, outcome,
                   processed, writes, prevOk, postCount, failCount, due, forcedEver>>

SpecSelect == SelectInit /\ [][Select]_vars

\* ------------------------------------------------------- claim vocabulary
ErrorOutcomes == {"fetch_error", "post_error"}
HasBatch(c) == fetched[c] # NoBatch /\ fetched[c] # <<>>
Posting(c) == pc = "post" /\ selected_keys[idx] = c

\* position of the first occurrence of m in vs, Len(vs) + 1 when there is none
FirstIdx(vs, m) ==
    IF \E i \in 1..Len(vs) : vs[i] = m
    THEN CHOOSE i \in 1..Len(vs) : vs[i] = m /\ \A j \in 1..(i - 1) : vs[j] # m
    ELSE Len(vs) + 1

IsPrefix(s, t) == Len(s) <= Len(t) /\ \A i \in 1..Len(s) : s[i] = t[i]

\* what should_post_videos chose for channel c in this run: the posted videos
\* followed, while c is being posted, by those still waiting
SelectionOf(c) == postedRun[c] \o (IF Posting(c) THEN videos_to_post ELSE <<>>)

\* the videos of c's batch that are strictly newer than marker m
NewerThan(c, m) == {fetched[c][i] : i \in 1..(FirstIdx(fetched[c], m) - 1)}

\* ------------------------------------------------------------------ C1
\* C1 (as claimed): whenever a post for a channel has failed in the run, the
\* posts for it stopped before the selection was exhausted and the channel's
\* marker, in memory and in the file after the run, is the one loaded at the
\* start of the run -- for every marker and either value of forceLatest.
C1_FailedPostKeepsMarker ==
    \A c \in ChannelKeys :
        outcome[c] = "post_error" =>
            /\ Len(postedRun[c]) < Len(should_post_videos(fetched[c], loaded[c], force_latest))
            /\ IsPrefix(postedRun[c], should_post_videos(fetched[c], loaded[c], force_latest))
            /\ state[c] = loaded[c]
            /\ (pc = "done" => file[c] = loaded[c])

\* ------------------------------------------------------------------ C2
\* C2 (as claimed): with forceLatest false in every run, every video that
\* appeared in a batch after the channel's marker was set is posted exactly
\* once: never twice, and once when a run has completed the channel without
\* error.
C2_ExactlyOnce ==
    ~forcedEver =>
        \A c \in ChannelKeys : \A v \in due[c] :
            /\ postCount[c][v] <= 1
            /\ (outcome[c] = "ok" => postCount[c][v] = 1)

\* C2 (amended): such a video has been posted at least once when a run has
\* completed the channel without error, and at most once more than the
\* number of failed posts of that channel (exactly once when none failed).
C2_AtLeastOnce ==
    ~forcedEver =>
        \A c \in ChannelKeys : \A v \in due[c] :
            /\ (outcome[c] = "ok" => postCount[c][v] >= 1)
            /\ postCount[c][v] <= 1 + failCount[c]

\* a video posted twice: once before a failed post, once on the re-run
C2_Witness ==
    /\ ~forcedEver
    /\ \E c \in ChannelKeys : \E v \in due[c] :
          postCount[c][v] = 2 /\ failCount[c] = 1 /\ outcome[c] = "ok"

\* ------------------------------------------------------------------ C3
\* C3: with forceLatest false, a non-empty batch of distinct ids and a
\* present marker other than videos[0].id, should_post_videos returns the
\* videos before the first occurrence of the marker, oldest first, all of the
\* batch when the marker occurs nowhere.  (A marker is present when Python
\* takes it as true: the empty string counts as absent.)
C3_NewerReversed ==
    (selDone /\ ~selForce /\ selVideos # <<>> /\ Truthy(selMarker)
        /\ selMarker # selVideos[1]) =>
        LET n == FirstIdx(selVideos, selMarker)
        IN  /\ Len(selResult) = n - 1
            /\ \A i \in 1..(n - 1) : selResult[i] = selVideos[n - i]
            /\ (selMarker \notin Elems(selVideos) => Len(selResult) = Len(selVideos))

\* [v0,v1,v2,v3] with marker v2 gives [v1,v0]
C3_Witness ==
    /\ selDone /\ ~selForce
    /\ selVideos = <<4, 3, 2, 1>> /\ selMarker = 2
    /\ selResult = <<3, 4>>

\* ------------------------------------------------------------------ C4
\* C4: with forceLatest true should_post_videos returns [videos[0]] for every
\* non-empty batch and every marker, and the empty sequence for an empty batch.
C4_ForceLatest ==
    (selDone /\ selForce) =>
        IF selVideos = <<>> THEN selResult = <<>>
        ELSE Len(selResult) = 1 /\ selResult[1] = selVideos[1]

\* forced, marker absent, more than one video in the batch
C4_Witness ==
    /\ selDone /\ selForce /\ selMarker = NoMarker
    /\ Len(selVideos) >= 2
    /\ selResult = <<selVideos[1]>>

\* ------------------------------------------------------------------ C5
\* C5 (as claimed): for a non-empty batch and an absent marker the selection
\* is empty, the marker becomes videos[0].id and no video of the channel is
\* posted in the run.
C5_Bootstrap ==
    \A c \in ChannelKeys :
        (HasBatch(c) /\ ~Truthy(loaded[c])) =>
            /\ state[c] = fetched[c][1]
            /\ SelectionOf(c) = <<>>

\* C5 (amended): for a non-empty batch and an absent marker the marker becomes
\* videos[0].id; with forceLatest false the selection is empty and no video
\* of the channel is posted in the run.
C5_BootstrapUnforced ==
    \A c \in ChannelKeys :
        (HasBatch(c) /\ ~Truthy(loaded[c])) =>
            /\ state[c] = fetched[c][1]
            /\ (~force_latest => SelectionOf(c) = <<>>)
            /\ (pc = "done" /\ outcome[c] = "ok" => file[c] = fetched[c][1])

\* a channel without marker bootstrapped on a batch of several videos
C5_Witness ==
    \E c \in ChannelKeys :
        /\ pc = "done" /\ ~force_latest /\ outcome[c] = "ok"
        /\ loaded[c] = NoMarker /\ Len(fetched[c]) >= 2
        /\ file[c] = fetched[c][1] /\ postedRun[c] = <<>>

\* ------------------------------------------------------------------ C6
\* C6 (as claimed): a run that passes the configuration check returns 1
\* exactly when every selected channel ended in a channel-level error, and
\* 0 otherwise.
C6_ExitOneIffAllFailed ==
    (pc = "done" /\ exitCode # 2) =>
        exitCode = (IF \A i \in 1..Len(selected_keys) :
                          outcome[selected_keys[i]] \in ErrorOutcomes
                    THEN 1 ELSE 0)

\* C6 (amended): such a run returns 1 exactly when at least one selected
\* channel ended in a channel-level error and no video was posted in the
\* run, and 0 otherwise.
C6_ExitOneIffErrorAndNoPost ==
    (pc = "done" /\ exitCode # 2) =>
        exitCode = (IF /\ \E c \in ChannelKeys : outcome[c] \in ErrorOutcomes
                       /\ \A c \in ChannelKeys : postedRun[c] = <<>>
                    THEN 1 ELSE 0)

\* exit 1 although a selected channel completed without error
C6_Witness ==
    /\ pc = "done" /\ exitCode = 1
    /\ \E i \in 1..Len(selected_keys) : outcome[selected_keys[i]] = "ok"

\* ------------------------------------------------------------------ C7
\* C7: in a run that passed the configuration check the channels are taken
\* once each in configured order whatever happened to earlier ones; a fetch
\* or announce failure is one recorded error and the loop goes on; an empty
\* fetch records no error, posts nothing and leaves the marker; the run ends.
Finished(c) == outcome[c] # "none"

RECURSIVE FailedIn(_)
FailedIn(done) ==
    IF done = <<>> THEN <<>>
    ELSE LET rest == FailedIn(SubSeq(done, 1, Len(done) - 1))
             c == done[Len(done)]
         IN  IF outcome[c] \in ErrorOutcomes THEN Append(rest, c) ELSE rest

C7_Channels ==
    (pc \in {"loop", "post", "done"} /\ exitCode # 2) =>
        /\ IsPrefix(processed, selected_keys)
        /\ (pc = "done" => processed = selected_keys)
        /\ (pc = "done" => \A c \in Elems(selected_keys) : Finished(c))
        /\ channel_errors = FailedIn(processed)
        /\ \A c \in ChannelKeys :
              outcome[c] = "empty" =>
                  postedRun[c] = <<>> /\ state[c] = loaded[c]

C7_EachChannelOnce ==
    /\ []C7_Channels
    /\ (pc \in {"loop", "post"}) ~> (pc = "done" /\ processed = selected_keys)

\* the first channel failed on a post, the second one still posted
C7_Witness ==
    /\ pc = "done" /\ selected_keys = CHANNELS
    /\ outcome[CHANNELS[1]] = "post_error"
    /\ outcome[CHANNELS[2]] = "ok" /\ postedRun[CHANNELS[2]] # <<>>
    /\ channel_errors = <<CHANNELS[1]>>

\* ------------------------------------------------------------------ C8
\* C8: the state file is written at most once per run, only after every
\* selected channel was processed, and exactly when some marker in memory
\* differs from the loaded one; a run returning 2 never writes it.
C8_SaveOnceIffChanged ==
    /\ writes <= 1
    /\ (writes = 1 => pc = "done" /\ processed = selected_keys /\ file = state)
    /\ (pc \in {"loop", "post"} => file = loaded)
    /\ (pc = "done" => (writes = 1 <=> state # loaded))
    /\ (pc = "done" /\ exitCode # 2 /\ writes = 0 => file = loaded)
    /\ (exitCode = 2 => writes = 0)

\* a write after a run in which one channel failed and the other advanced
C8_Witness ==
    /\ pc = "done" /\ writes = 1
    /\ \E c \in ChannelKeys : outcome[c] = "post_error"
    /\ \E c \in ChannelKeys : outcome[c] = "ok" /\ state[c] # loaded[c]

\* ------------------------------------------------------------------ C9
\* C9: with forceLatest false a channel whose marker is videos[0].id of the
\* fetched batch gets no selection, no post and no marker change; so a run
\* right after one that completed the channel without error, over the same
\* batch, posts nothing for it and leaves its marker.
C9_RerunIdempotent ==
    \A c \in ChannelKeys :
        /\ (~force_latest /\ HasBatch(c) /\ loaded[c] = fetched[c][1]) =>
              SelectionOf(c) = <<>> /\ state[c] = loaded[c]
        /\ (~force_latest /\ prevOk[c] # NoBatch /\ fetched[c] = prevOk[c]) =>
              SelectionOf(c) = <<>> /\ state[c] = loaded[c]

\* a second run over the batch the first one posted from
C9_Witness ==
    \E c \in ChannelKeys :
        /\ pc = "done" /\ ~force_latest /\ outcome[c] = "ok"
        /\ Len(prevOk[c]) >= 2 /\ fetched[c] = prevOk[c]
        /\ \E v \in VideoIds : postCount[c][v] = 1

\* ----------------------------------------------------------------- C10
\* C10 (as claimed): in every run, forced or not, when the marker of a
\* channel was present and in the fetched batch and has been advanced, every
\* video of the batch newer than the old marker was posted in the run.
C10_NoSkip ==
    \A c \in ChannelKeys :
        (HasBatch(c) /\ Truthy(loaded[c]) /\ loaded[c] \in Elems(fetched[c])
            /\ state[c] # loaded[c]) =>
            /\ state[c] = fetched[c][1]
            /\ NewerThan(c, loaded[c]) \subseteq Elems(postedRun[c])

\* C10 (amended): the same for every run with forceLatest false.
C10_NoSkipUnforced ==
    \A c \in ChannelKeys :
        (~force_latest /\ HasBatch(c) /\ Truthy(loaded[c])
            /\ loaded[c] \in Elems(fetched[c]) /\ state[c] # loaded[c]) =>
            /\ state[c] = fetched[c][1]
            /\ NewerThan(c, loaded[c]) \subseteq Elems(postedRun[c])

\* the marker advanced over two new videos, both posted
C10_Witness ==
    \E c \in ChannelKeys :
        /\ ~force_latest /\ HasBatch(c) /\ Truthy(loaded[c])
        /\ FirstIdx(fetched[c], loaded[c]) = 3
        /\ state[c] = fetched[c][1]
        /\ Len(postedRun[c]) = 2

====
